---- MODULE Spec2Model ----
(***************************************************************************)
(* Payments projection: the extraction pipeline of src/src/etl.py, the     *)
(* series preparation and forecasters of src/src/forecast.py and the       *)
(* forecast panel of src/app.py, as state machines.                        *)
(*                                                                         *)
(* Text is a sequence of one-character strings, so that strip, upper,      *)
(* replace and the substring test are computed.  A pandas Timestamp is a   *)
(* day ordinal counted from 2024-01-01 (a Monday), so dayofweek is the     *)
(* ordinal modulo 7 with Monday = 0.                                       *)
(***************************************************************************)
EXTENDS Integers, Sequences, FiniteSets, TLC

VARIABLES
    pc,            \* position of the modelled call
    path,          \* argument of _extract_date_from_path
    fecha,         \* its result
    xlsx,          \* workbook handed to _read_total_a_pagar_wide
    wide,          \* its result
    base_folder,   \* argument of load_payments_folder
    base_folders,  \* argument of load_payments_folders
    long_df,       \* the table a loader returned
    dff,           \* render_panel: the filtered table
    model_name,    \* render_panel: sidebar model choice
    steps,         \* render_panel: sidebar horizon
    fit_ok,        \* whether the numerical optimiser of the library converges
    series,        \* render_panel: result of prepare_series
    y,             \* history returned by the forecaster
    fcst,          \* forecast index returned by the forecaster
    fitted         \* the model the forecaster constructed

dateVars == <<path, fecha>>
sheetVars == <<xlsx, wide>>
loaderVars == <<base_folder, base_folders, long_df>>
panelVars == <<dff, model_name, steps, fit_ok, series, y, fcst, fitted>>
vars == <<pc, dateVars, sheetVars, loaderVars, panelVars>>

Unset == "unset"

DateIdle == path = Unset /\ fecha = Unset
SheetIdle == xlsx = Unset /\ wide = Unset
PanelIdle ==
    /\ dff = Unset /\ model_name = Unset /\ steps = Unset /\ fit_ok = Unset
    /\ series = Unset /\ y = Unset /\ fcst = Unset /\ fitted = Unset

(***************************************************************************)
(* Sequence helpers                                                        *)
(***************************************************************************)
SeqsUpTo(S, n) == UNION {[1..k -> S] : k \in 0..n}

RECURSIVE SumSeq(_)
SumSeq(s) == IF s = <<>> THEN 0 ELSE Head(s) + SumSeq(Tail(s))

RECURSIVE Concat(_)
Concat(ss) == IF ss = <<>> THEN <<>> ELSE Head(ss) \o Concat(Tail(ss))

(***************************************************************************)
(* Calendar                                                                *)
(***************************************************************************)
IsLeap(yr) == (yr % 4 = 0 /\ yr % 100 # 0) \/ yr % 400 = 0

DaysInMonth(yr, mo) ==
    IF mo = 2 THEN (IF IsLeap(yr) THEN 29 ELSE 28)
    ELSE IF mo \in {4, 6, 9, 11} THEN 30 ELSE 31

IsCalendarDate(yr, mo, dy) ==
    /\ mo \in 1..12
    /\ dy >= 1
    /\ dy <= DaysInMonth(yr, mo)

YearLen(yr) == IF IsLeap(yr) THEN 366 ELSE 365

RECURSIVE DaysBeforeYear(_)
DaysBeforeYear(yr) ==
    IF yr <= 2024 THEN 0 ELSE YearLen(yr - 1) + DaysBeforeYear(yr - 1)

RECURSIVE DaysBeforeMonth(_, _)
DaysBeforeMonth(yr, mo) ==
    IF mo <= 1 THEN 0 ELSE DaysInMonth(yr, mo - 1) + DaysBeforeMonth(yr, mo - 1)

\* Timestamp(year, month, day) as a day ordinal
Ordinal(yr, mo, dy) == DaysBeforeYear(yr) + DaysBeforeMonth(yr, mo) + (dy - 1)

\* DatetimeIndex.dayofweek: Mon = 0 ... Sun = 6
DayOfWeek(ord) == ord % 7

DayNames == <<"Monday", "Tuesday", "Wednesday", "Thursday", "Friday",
              "Saturday", "Sunday">>

\* Series.dt.day_name()
DayName(ord) == DayNames[DayOfWeek(ord) + 1]

(***************************************************************************)
(* _extract_date_from_path                                                 *)
(*                                                                         *)
(* A path is the sequence of its pieces: a piece is either text in which   *)
(* the pattern \d{2}\.\d{2}\.\d{4} does not occur, or one occurrence of    *)
(* the pattern with its three digit groups.                                *)
(***************************************************************************)
TextPiece == [shape |-> "text", dd |-> 0, mm |-> 0, yyyy |-> 0]
DatePiece(d, m, yr) == [shape |-> "date", dd |-> d, mm |-> m, yyyy |-> yr]

NoneResult == [kind |-> "None", ord |-> 0]
NaT == [kind |-> "NaT", ord |-> 0]
Timestamp(ord) == [kind |-> "Timestamp", ord |-> ord]

\* re.search: the first occurrence of the pattern, or no match
RECURSIVE ReSearch(_)
ReSearch(p) ==
    IF p = <<>> THEN <<>>
    ELSE IF Head(p).shape = "date" THEN <<Head(p)>>
    ELSE ReSearch(Tail(p))

\* pd.to_datetime(f"{dd}/{mm}/{yyyy}", dayfirst=True, errors="coerce").
\* dayfirst is a preference, not a constraint: the parser reads the first
\* field as the day when it exceeds 12 or when the second field can be a
\* month, and otherwise reads the text month-first.  Text that is no
\* calendar date under the reading taken is coerced to NaT.
ToDatetimeDayfirst(a, b, yr) ==
    LET dayFirst == a > 12 \/ b <= 12
        dy == IF dayFirst THEN a ELSE b
        mo == IF dayFirst THEN b ELSE a
    IN  IF IsCalendarDate(yr, mo, dy) THEN Timestamp(Ordinal(yr, mo, dy)) ELSE NaT

_extract_date_from_path(p) ==
    LET m == ReSearch(p)
    IN  IF m = <<>> THEN NoneResult
        ELSE ToDatetimeDayfirst(m[1].dd, m[1].mm, m[1].yyyy)

(***************************************************************************)
(* Text                                                                    *)
(***************************************************************************)
LowerCase == <<"a", "b", "c", "d", "e", "f", "g", "h", "i", "j", "k", "l", "m",
               "n", "o", "p", "q", "r", "s", "t", "u", "v", "w", "x", "y", "z">>
UpperCase == <<"A", "B", "C", "D", "E", "F", "G", "H", "I", "J", "K", "L", "M",
               "N", "O", "P", "Q", "R", "S", "T", "U", "V", "W", "X", "Y", "Z">>
Digits == <<"0", "1", "2", "3", "4", "5", "6", "7", "8", "9">>
Whitespace == {" ", "\n", "\t"}

UpperChar(c) ==
    IF \E i \in 1..Len(LowerCase) : LowerCase[i] = c
    THEN UpperCase[CHOOSE i \in 1..Len(LowerCase) : LowerCase[i] = c]
    ELSE c

\* str.upper()
Upper(s) == [i \in 1..Len(s) |-> UpperChar(s[i])]

RECURSIVE LStrip(_)
LStrip(s) ==
    IF s # <<>> /\ Head(s) \in Whitespace THEN LStrip(Tail(s)) ELSE s

RECURSIVE RStrip(_)
RStrip(s) ==
    IF s # <<>> /\ s[Len(s)] \in Whitespace
    THEN RStrip(SubSeq(s, 1, Len(s) - 1)) ELSE s

\* str.strip()
Strip(s) == RStrip(LStrip(s))

\* str.replace(old, new) for one-character old and at most one-character new
Replace(s, old, new) ==
    Concat([i \in 1..Len(s) |-> IF s[i] = old THEN new ELSE <<s[i]>>])

\* the Python test `sub in s`
Contains(s, sub) ==
    \E i \in 1..(Len(s) - Len(sub) + 1) : SubSeq(s, i, i + Len(sub) - 1) = sub

\* position of the first occurrence of character c in s, 0 when absent
FirstIndex(s, c) ==
    IF \E i \in 1..Len(s) : s[i] = c
    THEN CHOOSE i \in 1..Len(s) : s[i] = c /\ \A j \in 1..(i - 1) : s[j] # c
    ELSE 0

\* str.split(sep, n=1): the parts before and after the first separator
SplitFirst(s, c) ==
    LET i == FirstIndex(s, c)
    IN  IF i = 0 THEN <<s>> ELSE <<SubSeq(s, 1, i - 1), SubSeq(s, i + 1, Len(s))>>

IsDigit(c) == \E i \in 1..Len(Digits) : Digits[i] = c
DigitValue(c) == (CHOOSE i \in 1..Len(Digits) : Digits[i] = c) - 1

RECURSIVE DigitsValue(_)
DigitsValue(s) ==
    IF s = <<>> THEN 0 ELSE DigitsValue(SubSeq(s, 1, Len(s) - 1)) * 10 + DigitValue(s[Len(s)])

RECURSIVE NatToText(_)
NatToText(n) ==
    IF n < 10 THEN <<Digits[n + 1]>> ELSE NatToText(n \div 10) \o <<Digits[(n % 10) + 1]>>

\* str(x) of a float holding a whole amount, e.g. -1200.0
FloatToText(v) ==
    (IF v < 0 THEN <<"-">> ELSE <<>>) \o NatToText(IF v < 0 THEN -v ELSE v) \o <<".", "0">>

\* float(s) on amounts: an optional sign, digits, and an optional fraction
\* of zeros; anything else raises ValueError (ok = FALSE).
ParseFloat(s) ==
    LET signed == s # <<>> /\ Head(s) \in {"-", "+"}
        body == IF signed THEN Tail(s) ELSE s
        parts == SplitFirst(body, ".")
        whole == parts[1]
        frac == IF Len(parts) = 2 THEN parts[2] ELSE <<>>
        wellFormed ==
            /\ \A i \in 1..Len(whole) : IsDigit(whole[i])
            /\ \A i \in 1..Len(frac) : frac[i] = "0"
            /\ Len(whole) + Len(frac) > 0
        mag == DigitsValue(whole)
    IN  IF wellFormed
        THEN [ok |-> TRUE, v |-> IF signed /\ Head(s) = "-" THEN -mag ELSE mag]
        ELSE [ok |-> FALSE, v |-> 0]

(***************************************************************************)
(* Spreadsheet cells                                                       *)
(***************************************************************************)
NaN == [t |-> "nan", s |-> <<>>, v |-> 0]
Str(s) == [t |-> "str", s |-> s, v |-> 0]
Num(v) == [t |-> "num", s |-> <<>>, v |-> v]

\* pd.isna(x)
IsNa(x) == x.t = "nan"

\* str(x)
ToText(x) ==
    IF x.t = "str" THEN x.s
    ELSE IF x.t = "num" THEN FloatToText(x.v)
    ELSE <<"n", "a", "n">>

_coerce_money(x) ==
    IF IsNa(x) THEN 0
    ELSE LET s == Strip(ToText(x))
         IN  IF s \in {<<"-">>, <<>>} THEN 0
             ELSE LET f == ParseFloat(Replace(s, ",", <<>>))
                  IN  IF f.ok THEN f.v ELSE 0

(***************************************************************************)
(* Vocabulary                                                              *)
(***************************************************************************)
BCP == <<"B", "C", "P">>
SCOTIABANK == <<"S", "C", "O", "T", "I", "A", "B", "A", "N", "K">>
SANTANDER == <<"S", "A", "N", "T", "A", "N", "D", "E", "R">>
INTERBANK == <<"I", "N", "T", "E", "R", "B", "A", "N", "K">>
TOTAL == <<"T", "O", "T", "A", "L">>
PEN == <<"P", "E", "N">>
USD == <<"U", "S", "D">>
TOTAL_A_PAGAR == <<"T", "O", "T", "A", "L", " ", "A", " ", "P", "A", "G", "A", "R">>

BANKS_ALLOWED == {BCP, SCOTIABANK, SANTANDER, INTERBANK, TOTAL}
CCY_ALLOWED == {PEN, USD}

\* f"{bank}_{ccy}"
ColName(bank, ccy) == bank \o <<"_">> \o ccy

FINAL_COLS == <<ColName(BCP, PEN), ColName(BCP, USD),
                ColName(SCOTIABANK, PEN), ColName(SCOTIABANK, USD),
                ColName(SANTANDER, PEN), ColName(SANTANDER, USD),
                ColName(INTERBANK, PEN), ColName(INTERBANK, USD),
                ColName(TOTAL, PEN), ColName(TOTAL, USD)>>

(***************************************************************************)
(* Ordered dict: a sequence of <<key, value>> in insertion order           *)
(***************************************************************************)
DictKeys(d) == [i \in 1..Len(d) |-> d[i][1]]
DictHas(d, k) == \E i \in 1..Len(d) : d[i][1] = k
DictGet(d, k) == d[CHOOSE i \in 1..Len(d) : d[i][1] = k][2]

\* d[k] = v
DictSet(d, k, v) ==
    IF DictHas(d, k)
    THEN [i \in 1..Len(d) |-> IF d[i][1] = k THEN <<k, v>> ELSE d[i]]
    ELSE Append(d, <<k, v>>)

\* d.setdefault(k, v)
DictSetDefault(d, k, v) == IF DictHas(d, k) THEN d ELSE Append(d, <<k, v>>)

(***************************************************************************)
(* _read_total_a_pagar_wide                                                *)
(*                                                                         *)
(* A workbook is [state, grid]: state "corrupt" (the file cannot be read)  *)
(* and "no_sheet" (no sheet RESUMEN) make read_excel raise; otherwise grid *)
(* is the sheet read with header=None, a sequence of rows of cells.        *)
(***************************************************************************)
Workbook(state, grid) == [state |-> state, grid |-> grid]

\* Series.ffill() along a header row
RECURSIVE FFillFrom(_, _)
FFillFrom(row, last) ==
    IF row = <<>> THEN <<>>
    ELSE LET cur == IF IsNa(Head(row)) THEN last ELSE Head(row)
         IN  <<cur>> \o FFillFrom(Tail(row), cur)

FFill(row) == FFillFrom(row, NaN)

\* r.astype(str).str.strip().str.upper().eq("TOTAL A PAGAR").any()
RowHasLabel(row) ==
    \E i \in 1..Len(row) : Upper(Strip(ToText(row[i]))) = TOTAL_A_PAGAR

\* the chain of substring tests that maps a header to a bank name
NormalizeBank(bank) ==
    IF Contains(bank, BCP) THEN BCP
    ELSE IF Contains(bank, SCOTIABANK) THEN SCOTIABANK
    ELSE IF Contains(bank, SANTANDER) THEN SANTANDER
    ELSE IF Contains(bank, INTERBANK) THEN INTERBANK
    ELSE IF Contains(bank, TOTAL) THEN TOTAL
    ELSE bank

\* str(bank_raw).strip().upper().replace("\n", " "), then the bank chain
HeaderBank(cell) == NormalizeBank(Replace(Upper(Strip(ToText(cell))), "\n", <<" ">>))

\* str(ccy_raw).strip().upper().replace("\n", " ")
HeaderCcy(cell) == Replace(Upper(Strip(ToText(cell))), "\n", <<" ">>)

\* the body of the loop over df.columns
WideStep(sofar, bank, ccy, value) ==
    IF bank \in BANKS_ALLOWED /\ ccy \in CCY_ALLOWED
    THEN DictSet(sofar, ColName(bank, ccy), _coerce_money(value))
    ELSE sofar

\* the loop over df.columns, columns 1..n done
RECURSIVE WideLoop(_, _, _, _)
WideLoop(hdr_bank, hdr_ccy, values, n) ==
    IF n = 0 THEN <<>>
    ELSE WideStep(WideLoop(hdr_bank, hdr_ccy, values, n - 1),
                  HeaderBank(hdr_bank[n]), HeaderCcy(hdr_ccy[n]), values[n])

\* mutant: the missing combinations are not filled in
FillFinalCols_NoFill(d, n) == d

RECURSIVE FillFinalCols(_, _)
FillFinalCols(d, n) ==
    IF n = 0 THEN d
    ELSE DictSetDefault(FillFinalCols(d, n - 1), FINAL_COLS[n], 0)

NotFound == [found |-> FALSE, dict |-> <<>>]
Found(d) == [found |-> TRUE, dict |-> d]

\* from `if not wide` on
WideResult(w) == IF w = <<>> THEN NotFound ELSE Found(FillFinalCols(w, Len(FINAL_COLS)))

\* from `row_idx = df.index[mask][0]` on; row_idx counts rows from 0
ReadBlock(df, row_idx) ==
    IF row_idx < 2 THEN NotFound
    ELSE WideResult(WideLoop(FFill(df[row_idx - 1]), FFill(df[row_idx]),
                             df[row_idx + 1], Len(df[row_idx + 1])))

\* df.apply(...): the positions, from 1, of the rows holding the label
LabelMask(df) == {i \in 1..Len(df) : RowHasLabel(df[i])}

FirstOf(mask) == CHOOSE i \in mask : \A j \in mask : i <= j

_read_total_a_pagar_wide(wb) ==
    IF wb.state # "ok" THEN NotFound
    ELSE IF LabelMask(wb.grid) = {} THEN NotFound
    ELSE ReadBlock(wb.grid, FirstOf(LabelMask(wb.grid)) - 1)

(***************************************************************************)
(* DataFrames: [columns, rows], rows a sequence of records                 *)
(***************************************************************************)
DataFrame(columns, rows) == [columns |-> columns, rows |-> rows]

\* pd.DataFrame(columns=["FECHA", "BANCO", "MONEDA", "Valor", "DiaNombre"])
EmptyPayments == DataFrame(<<"FECHA", "BANCO", "MONEDA", "Valor", "DiaNombre">>, <<>>)

\* df.empty
IsEmpty(df) == Len(df.rows) = 0

FECHA == <<"F", "E", "C", "H", "A">>

\* insertion of the pair x = <<key, row>> behind every pair whose key does
\* not exceed it
RECURSIVE InsertByKey(_, _)
InsertByKey(sorted, x) ==
    IF sorted = <<>> THEN <<x>>
    ELSE IF Head(sorted)[1] <= x[1]
         THEN <<Head(sorted)>> \o InsertByKey(Tail(sorted), x)
         ELSE <<x>> \o sorted

RECURSIVE SortPairs(_)
SortPairs(pairs) ==
    IF pairs = <<>> THEN <<>>
    ELSE InsertByKey(SortPairs(SubSeq(pairs, 1, Len(pairs) - 1)), pairs[Len(pairs)])

\* sort_values: rows ascending by keys[i], the key of rows[i].  The default
\* sort kind does not fix the order of rows with equal keys; here they keep
\* their order, and no property below speaks of that order.
SortValues(rows, keys) ==
    LET sorted == SortPairs([i \in 1..Len(rows) |-> <<keys[i], rows[i]>>])
    IN  [i \in 1..Len(rows) |-> sorted[i][2]]

WideFecha(w) == DictGet(w, FECHA)
LongFecha(r) == r.FECHA

\* wide_df.melt(id_vars=["FECHA"], var_name="Atributo", value_name="Valor"):
\* the value columns are stacked one after the other, each block holding
\* every row of wide_df in wide_df's order.
Melt(columns, wide_rows) ==
    LET value_vars == SelectSeq(columns, LAMBDA k : k # FECHA)
    IN  Concat([j \in 1..Len(value_vars) |->
            [i \in 1..Len(wide_rows) |->
                [FECHA |-> DictGet(wide_rows[i], FECHA),
                 Atributo |-> value_vars[j],
                 Valor |-> DictGet(wide_rows[i], value_vars[j])]]])

\* the split of Atributo into BANCO and MONEDA, the drop of Atributo and the
\* derived DiaNombre
LongRecord(m) ==
    LET parts == SplitFirst(m.Atributo, "_")
    IN  [FECHA |-> m.FECHA,
         Valor |-> m.Valor,
         BANCO |-> parts[1],
         MONEDA |-> parts[2],
         DiaNombre |-> DayName(m.FECHA)]

(***************************************************************************)
(* load_payments_folder                                                    *)
(*                                                                         *)
(* A folder is the sequence of the .xlsx files under it in the order       *)
(* rglob yields them; a file is [lock, path, wb], lock telling whether its *)
(* name starts with "~$".                                                  *)
(***************************************************************************)
File(lock, p, wb) == [lock |-> lock, path |-> p, wb |-> wb]

\* the body of the loop over files: the two `continue`s, then the append of
\* the wide dict with its FECHA
AppendRow(rows, fch, wide_vals) ==
    IF fch.kind \in {"None", "NaT"} THEN rows
    ELSE IF ~wide_vals.found THEN rows
    ELSE Append(rows, DictSet(wide_vals.dict, FECHA, fch.ord))

\* the loop over files: one wide dict per file that is not skipped
RECURSIVE CollectRows(_)
CollectRows(files) ==
    IF files = <<>> THEN <<>>
    ELSE AppendRow(CollectRows(SubSeq(files, 1, Len(files) - 1)),
                   _extract_date_from_path(files[Len(files)].path),
                   _read_total_a_pagar_wide(files[Len(files)].wb))

\* pd.DataFrame(rows).sort_values("FECHA")
SortWide(rows) == SortValues(rows, [i \in 1..Len(rows) |-> WideFecha(rows[i])])

\* the long table built from the melted rows
LongFrame(melted) ==
    DataFrame(<<"FECHA", "Valor", "BANCO", "MONEDA", "DiaNombre">>,
              [i \in 1..Len(melted) |-> LongRecord(melted[i])])

\* from `if not rows` on.  The columns of pd.DataFrame(rows) are the dict
\* keys in order of first appearance, and every dict holds every key.
FrameOfRows(rows) ==
    IF rows = <<>> THEN EmptyPayments
    ELSE LongFrame(Melt(DictKeys(rows[1]), SortWide(rows)))

load_payments_folder(folder) ==
    FrameOfRows(CollectRows(SelectSeq(folder, LAMBDA f : ~f.lock)))

(***************************************************************************)
(* load_payments_folders                                                   *)
(***************************************************************************)
\* if not df.empty: dfs.append(df)
AppendFrame(dfs, df) == IF ~IsEmpty(df) THEN Append(dfs, df) ELSE dfs

\* the loop over base_folders: the non-empty loads, in order
RECURSIVE CollectFrames(_)
CollectFrames(folders) ==
    IF folders = <<>> THEN <<>>
    ELSE AppendFrame(CollectFrames(SubSeq(folders, 1, Len(folders) - 1)),
                     load_payments_folder(folders[Len(folders)]))

\* pd.concat(dfs, ignore_index=True)
ConcatFrames(dfs) ==
    DataFrame(dfs[1].columns, Concat([i \in 1..Len(dfs) |-> dfs[i].rows]))

\* mutant: the concatenation is returned without the final sort
SortLong_Unsorted(df) == df

\* out.sort_values("FECHA")
SortLong(df) ==
    DataFrame(df.columns, SortValues(df.rows, [i \in 1..Len(df.rows) |-> LongFecha(df.rows[i])]))

\* from `if not dfs` on
FrameOfFrames(dfs) ==
    IF dfs = <<>> THEN EmptyPayments ELSE SortLong(ConcatFrames(dfs))

load_payments_folders(folders) == FrameOfFrames(CollectFrames(folders))

(***************************************************************************)
(* Series: [index, values], index a sequence of day ordinals               *)
(***************************************************************************)
Series(index, values) == [index |-> index, values |-> values]
Raised == [raised |-> TRUE, index |-> <<>>, values |-> <<>>]
Returned(sr) == [raised |-> FALSE, index |-> sr.index, values |-> sr.values]

Range(s) == {s[i] : i \in 1..Len(s)}

RECURSIVE SetToSortedSeq(_)
SetToSortedSeq(S) ==
    IF S = {} THEN <<>>
    ELSE LET m == CHOOSE x \in S : \A z \in S : x <= z
         IN  <<m>> \o SetToSortedSeq(S \ {m})

\* pd.date_range(start, end, freq) for the daily and the anchored weekly
\* frequencies; "W" is anchored on Sunday
Anchor(freq) ==
    IF freq = "W-TUE" THEN 1 ELSE IF freq = "W-FRI" THEN 4 ELSE 6

DateRange(start, end, freq) ==
    IF freq = "D" THEN [i \in 1..(end - start + 1) |-> start + i - 1]
    ELSE SetToSortedSeq({d \in start..end : DayOfWeek(d) = Anchor(freq)})

\* days between consecutive dates of a frequency
Period(freq) == IF freq = "D" THEN 1 ELSE 7

\* the value the series holds at date d, `fill` when d is not in its index
ValueAt(sr, d, fill) ==
    IF \E i \in 1..Len(sr.index) : sr.index[i] = d
    THEN sr.values[CHOOSE i \in 1..Len(sr.index) : sr.index[i] = d]
    ELSE fill

\* Series.reindex(idx, fill_value=fill)
Reindex(sr, idx, fill) ==
    Series(idx, [i \in 1..Len(idx) |-> ValueAt(sr, idx[i], fill)])

(***************************************************************************)
(* prepare_series                                                          *)
(***************************************************************************)
\* mutant: the amounts are summed without the sign flip
GroupSum_NoNegate(rows) ==
    LET idx == SetToSortedSeq({rows[i].FECHA : i \in 1..Len(rows)})
        monto(d) == SumSeq([j \in 1..Len(rows) |->
                               IF rows[j].FECHA = d THEN rows[j].Valor ELSE 0])
    IN  Series(idx, [i \in 1..Len(idx) |-> monto(idx[i])])

\* df["MONTO"] = -df["Valor"]; groupby("FECHA")["MONTO"].sum().sort_index()
GroupSum(rows) ==
    LET idx == SetToSortedSeq({rows[i].FECHA : i \in 1..Len(rows)})
        monto(d) == SumSeq([j \in 1..Len(rows) |->
                               IF rows[j].FECHA = d THEN -rows[j].Valor ELSE 0])
    IN  Series(idx, [i \in 1..Len(idx) |-> monto(idx[i])])

\* min() and max() of an empty DatetimeIndex are NaT, and date_range raises
\* ValueError when start or end is NaT
prepare_series(rows, freq) ==
    LET sr == GroupSum(rows)
    IN  IF freq = "None" THEN Returned(sr)
        ELSE IF sr.index = <<>> THEN Raised
        ELSE Returned(Reindex(sr, DateRange(sr.index[1], sr.index[Len(sr.index)], freq), 0))

(***************************************************************************)
(* infer_weekly_freq, to_regular_weekly                                    *)
(***************************************************************************)
\* pd.Series(dow).mode().iloc[0]: the smallest of the most frequent values
Mode(dow) ==
    LET count(v) == Cardinality({i \in 1..Len(dow) : dow[i] = v})
    IN  CHOOSE v \in Range(dow) :
            \A w \in Range(dow) : count(w) < count(v) \/ (count(w) = count(v) /\ v <= w)

infer_weekly_freq(sr) ==
    LET mode == Mode([i \in 1..Len(sr.index) |-> DayOfWeek(sr.index[i])])
    IN  IF mode = 1 THEN "W-TUE" ELSE IF mode = 4 THEN "W-FRI" ELSE "W"

\* series.asfreq(freq).fillna(0.0)
to_regular_weekly(sr) ==
    LET freq == infer_weekly_freq(sr)
    IN  Reindex(sr, DateRange(sr.index[1], sr.index[Len(sr.index)], freq), 0)

(***************************************************************************)
(* forecast_holt_winters, forecast_sarima                                  *)
(*                                                                         *)
(* The fit is the library's: it fails on an empty history and when the     *)
(* optimiser does not converge (converges = FALSE); the additive seasonal  *)
(* exponential smoothing model also rejects a history of fewer than two    *)
(* full seasonal cycles with ValueError.  The forecast continues the       *)
(* index of the fitted history at its weekly frequency; its values are the *)
(* library's and are left out.                                             *)
(***************************************************************************)
SeasonalPeriods == 7

ForecastIndex(hist, n) ==
    [k \in 1..n |-> hist.index[Len(hist.index)] + Period("W") * k]

FitFailed(model) ==
    [raised |-> TRUE, y |-> Series(<<>>, <<>>), fcst |-> <<>>, model |-> model]

forecast_holt_winters(sr, n, seasonal_periods, converges) ==
    LET hist == to_regular_weekly(sr)
        model == [name |-> "ExponentialSmoothing", trend |-> "add",
                  seasonal |-> "add", seasonal_periods |-> seasonal_periods]
    IN  IF Len(hist.index) < 2 * seasonal_periods \/ ~converges
        THEN FitFailed(model)
        ELSE [raised |-> FALSE, y |-> hist, fcst |-> ForecastIndex(hist, n), model |-> model]

forecast_sarima(sr, n, seasonal_periods, converges) ==
    LET hist == to_regular_weekly(sr)
        model == [name |-> "SARIMAX", trend |-> "none",
                  seasonal |-> "sarima", seasonal_periods |-> seasonal_periods]
    IN  IF Len(hist.index) = 0 \/ ~converges
        THEN FitFailed(model)
        ELSE [raised |-> FALSE, y |-> hist, fcst |-> ForecastIndex(hist, n), model |-> model]

(***************************************************************************)
(* Specification of _extract_date_from_path                                *)
(***************************************************************************)
MaxPieces == 2

DayFields == {1, 5, 13, 31}
MonthFields == {1, 2, 13}
YearFields == {2024, 2025}

Pieces ==
    {TextPiece} \cup {DatePiece(d, m, yr) : d \in DayFields, m \in MonthFields, yr \in YearFields}

Paths == SeqsUpTo(Pieces, MaxPieces)

InitDate ==
    /\ pc = "start"
    /\ path \in Paths
    /\ fecha = Unset
    /\ SheetIdle
    /\ base_folder = Unset /\ base_folders = Unset /\ long_df = Unset
    /\ PanelIdle

ExtractDate ==
    /\ pc = "start"
    /\ fecha' = _extract_date_from_path(path)
    /\ pc' = "date_done"
    /\ UNCHANGED <<path, sheetVars, loaderVars, panelVars>>

NextDate == ExtractDate

SpecDate == InitDate /\ [][NextDate]_vars

(***************************************************************************)
(* Specification of _read_total_a_pagar_wide                               *)
(***************************************************************************)
TxtBanco == <<"B", "A", "N", "C", "O">>
TxtScotiaSA == <<" ", "s", "c", "o", "t", "i", "a", "b", "a", "n", "k", " ", "S", ".", "A", ".">>
TxtTotalBcp == <<"T", "o", "t", "a", "l", "\n", "B", "C", "P">>
TxtUsdPadded == <<" ", "u", "s", "d", "\n">>
TxtEur == <<"E", "U", "R">>
TxtLabelLoose == <<" ", "t", "o", "t", "a", "l", " ", "a", " ", "p", "a", "g", "a", "r", " ">>
TxtSubtotal == <<"S", "U", "B", "T", "O", "T", "A", "L">>
TxtDash == <<" ", "-", " ">>
TxtAmount == <<"-", "1", ",", "2", "0", "0">>
TxtAbc == <<"a", "b", "c">>

BankCells == {Str(BCP), Str(TxtScotiaSA), Str(TxtTotalBcp), Str(TxtBanco), NaN}
CcyCells == {Str(PEN), Str(TxtUsdPadded), Str(TxtEur), NaN}
LabelCells == {Str(TOTAL_A_PAGAR), Str(TxtLabelLoose), Str(TxtSubtotal)}
ValueCells == {Num(-350), Str(TxtAmount), Str(TxtDash), Str(TxtAbc), NaN}

\* a sheet of three columns: the label column and two amount columns, with
\* `above` rows over the label row
Sheet(above, b1, b2, c1, c2, label, v1, v2) ==
    LET top == << <<Str(TxtBanco), NaN, NaN>>,
                  <<NaN, b1, b2>>,
                  <<NaN, c1, c2>> >>
    IN  SubSeq(top, 4 - above, 3) \o << <<label, v1, v2>> >>

Sheets ==
    {Sheet(above, b1, b2, c1, c2, label, v1, Num(-75)) :
        above \in 0..3, b1 \in BankCells, b2 \in BankCells,
        c1 \in CcyCells, c2 \in CcyCells, label \in LabelCells, v1 \in ValueCells}

Workbooks ==
    {Workbook("corrupt", <<>>), Workbook("no_sheet", <<>>), Workbook("ok", <<>>)}
    \cup {Workbook("ok", g) : g \in Sheets}

InitSheet ==
    /\ pc = "start"
    /\ xlsx \in Workbooks
    /\ wide = Unset
    /\ DateIdle
    /\ base_folder = Unset /\ base_folders = Unset /\ long_df = Unset
    /\ PanelIdle

ReadTotal ==
    /\ pc = "start"
    /\ wide' = _read_total_a_pagar_wide(xlsx)
    /\ pc' = "sheet_done"
    /\ UNCHANGED <<xlsx, dateVars, loaderVars, panelVars>>

NextSheet == ReadTotal

SpecSheet == InitSheet /\ [][NextSheet]_vars

(***************************************************************************)
(* Specification of load_payments_folder                                   *)
(***************************************************************************)
MaxFiles == 2

PathNoDate == <<TextPiece, TextPiece>>
PathBadDate == <<DatePiece(31, 2, 2025)>>
PathMonthFirst == <<TextPiece, DatePiece(5, 13, 2025)>>
PathJan13 == <<DatePiece(13, 1, 2025), TextPiece>>
PathJan05 == <<TextPiece, DatePiece(5, 1, 2025)>>

\* BCP over a merged header cell, both currencies
SheetBcp ==
    Sheet(3, Str(BCP), NaN, Str(PEN), Str(TxtUsdPadded), Str(TOTAL_A_PAGAR), Num(-350), Num(-75))
\* Scotiabank in dollars first, then the grand total in soles
SheetScotia ==
    Sheet(2, Str(TxtScotiaSA), Str(TOTAL), Str(USD), Str(PEN), Str(TxtLabelLoose), Str(TxtAmount), Num(-75))
SheetNoLabel ==
    Sheet(3, Str(BCP), NaN, Str(PEN), Str(USD), Str(TxtSubtotal), Num(-350), Num(-75))
SheetLabelHigh ==
    Sheet(1, Str(BCP), NaN, Str(PEN), Str(USD), Str(TOTAL_A_PAGAR), Num(-350), Num(-75))
SheetNoColumns ==
    Sheet(3, Str(TxtBanco), NaN, Str(TxtEur), NaN, Str(TOTAL_A_PAGAR), Num(-350), Num(-75))

FolderFiles ==
    {File(FALSE, PathJan13, Workbook("ok", SheetBcp)),
     File(FALSE, PathJan05, Workbook("ok", SheetScotia)),
     File(FALSE, PathJan05, Workbook("ok", SheetBcp)),
     File(TRUE, PathJan05, Workbook("ok", SheetBcp)),
     File(FALSE, PathNoDate, Workbook("ok", SheetBcp)),
     File(FALSE, PathBadDate, Workbook("ok", SheetBcp)),
     File(FALSE, PathMonthFirst, Workbook("ok", SheetBcp)),
     File(FALSE, PathJan13, Workbook("corrupt", <<>>)),
     File(FALSE, PathJan13, Workbook("no_sheet", <<>>)),
     File(FALSE, PathJan13, Workbook("ok", <<>>)),
     File(FALSE, PathJan13, Workbook("ok", SheetNoLabel)),
     File(FALSE, PathJan13, Workbook("ok", SheetLabelHigh)),
     File(FALSE, PathJan13, Workbook("ok", SheetNoColumns))}

Folders == SeqsUpTo(FolderFiles, MaxFiles)

InitFolder ==
    /\ pc = "start"
    /\ base_folder \in Folders
    /\ long_df = Unset
    /\ base_folders = Unset
    /\ DateIdle /\ SheetIdle /\ PanelIdle

LoadFolder ==
    /\ pc = "start"
    /\ long_df' = load_payments_folder(base_folder)
    /\ pc' = "folder_done"
    /\ UNCHANGED <<base_folder, base_folders, dateVars, sheetVars, panelVars>>

NextFolder == LoadFolder

SpecFolder == InitFolder /\ [][NextFolder]_vars

(***************************************************************************)
(* Specification of load_payments_folders                                  *)
(***************************************************************************)
MaxFolders == 2

FileJan13 == File(FALSE, PathJan13, Workbook("ok", SheetBcp))
FileJan05 == File(FALSE, PathJan05, Workbook("ok", SheetScotia))
FileJan05Bcp == File(FALSE, PathJan05, Workbook("ok", SheetBcp))
FileCorrupt == File(FALSE, PathJan13, Workbook("corrupt", <<>>))

RootFolders ==
    {<<>>,
     <<FileCorrupt>>,
     <<FileJan13>>,
     <<FileJan05>>,
     <<FileJan13, FileJan05>>,
     <<FileJan05, FileJan13>>,
     <<FileJan05Bcp, FileCorrupt, FileJan05>>,
     <<FileJan13, FileJan05Bcp>>}

InitFolders ==
    /\ pc = "start"
    /\ base_folders \in SeqsUpTo(RootFolders, MaxFolders)
    /\ long_df = Unset
    /\ base_folder = Unset
    /\ DateIdle /\ SheetIdle /\ PanelIdle

LoadFolders ==
    /\ pc = "start"
    /\ long_df' = load_payments_folders(base_folders)
    /\ pc' = "folders_done"
    /\ UNCHANGED <<base_folder, base_folders, dateVars, sheetVars, panelVars>>

NextFolders == LoadFolders

SpecFolders == InitFolders /\ [][NextFolders]_vars

(***************************************************************************)
(* Specification of render_panel: prepare_series on the filtered table,    *)
(* the check for too few points, then the forecaster chosen in the sidebar *)
(***************************************************************************)
MaxRows == 3
MinPoints == 8

\* 2025-01-05 (Sunday), 2025-01-07 (Tuesday), 2025-01-10 (Friday),
\* 2025-01-15, 2025-04-15 (Tuesday), 2025-04-18 (Friday)
PanelDates == {370, 372, 375, 380, 470, 473}
PanelRows == [FECHA : PanelDates, Valor : {-100}] \cup {[FECHA |-> 370, Valor |-> 40]}
StepChoices == {7, 30}

InitPanel ==
    /\ pc = "panel"
    /\ dff \in SeqsUpTo(PanelRows, MaxRows)
    /\ model_name \in {"Holt-Winters", "SARIMA"}
    /\ steps \in StepChoices
    /\ fit_ok \in BOOLEAN
    /\ series = Unset /\ y = Unset /\ fcst = Unset /\ fitted = Unset
    /\ base_folder = Unset /\ base_folders = Unset /\ long_df = Unset
    /\ DateIdle /\ SheetIdle

PrepareSeries ==
    /\ pc = "panel"
    /\ series' = prepare_series(dff, "D")
    /\ pc' = IF series'.raised THEN "prepare_raised" ELSE "prepared"
    /\ UNCHANGED <<dff, model_name, steps, fit_ok, y, fcst, fitted,
                   dateVars, sheetVars, loaderVars>>

TooFewPoints ==
    /\ pc = "prepared"
    /\ Len(series.index) < MinPoints
    /\ pc' = "info"
    /\ UNCHANGED <<panelVars, dateVars, sheetVars, loaderVars>>

Forecast(r) ==
    /\ y' = r.y
    /\ fcst' = r.fcst
    /\ fitted' = r.model
    /\ pc' = IF r.raised THEN "forecast_raised" ELSE "plotted"
    /\ UNCHANGED <<dff, model_name, steps, fit_ok, series,
                   dateVars, sheetVars, loaderVars>>

ForecastHoltWinters ==
    /\ pc = "prepared"
    /\ Len(series.index) >= MinPoints
    /\ model_name = "Holt-Winters"
    /\ Forecast(forecast_holt_winters(series, steps, SeasonalPeriods, fit_ok))

ForecastSarima ==
    /\ pc = "prepared"
    /\ Len(series.index) >= MinPoints
    /\ model_name # "Holt-Winters"
    /\ Forecast(forecast_sarima(series, steps, SeasonalPeriods, fit_ok))

NextPanel ==
    \/ PrepareSeries
    \/ TooFewPoints
    \/ ForecastHoltWinters
    \/ ForecastSarima

SpecPanel == InitPanel /\ [][NextPanel]_vars

(***************************************************************************)
(* Properties                                                              *)
(***************************************************************************)
Count(sq, x) == Cardinality({i \in 1..Len(sq) : sq[i] = x})

SameRows(a, b) ==
    /\ Len(a) = Len(b)
    /\ \A x \in Range(a) \cup Range(b) : Count(a, x) = Count(b, x)

FechaSorted(rows) ==
    \A i \in 1..(Len(rows) - 1) : rows[i].FECHA <= rows[i + 1].FECHA

\* the calendar dates that the dd.mm.yyyy occurrences of a path spell when
\* read day-first
ValidDates(p) ==
    {Ordinal(p[i].yyyy, p[i].mm, p[i].dd) :
        i \in {j \in 1..Len(p) : /\ p[j].shape = "date"
                                 /\ IsCalendarDate(p[j].yyyy, p[j].mm, p[j].dd)}}

\* the bank/currency columns of the block under the first label row, empty
\* when the workbook has no such block
SheetKeys(wb) ==
    LET g == wb.grid
        mask == LabelMask(g)
        r == FirstOf(mask)
    IN  IF wb.state # "ok" \/ mask = {} THEN {}
        ELSE IF r < 3 THEN {}
        ELSE {ColName(HeaderBank(FFill(g[r - 2])[c]), HeaderCcy(FFill(g[r - 1])[c])) :
                c \in {k \in 1..Len(g[r]) :
                          /\ HeaderBank(FFill(g[r - 2])[k]) \in BANKS_ALLOWED
                          /\ HeaderCcy(FFill(g[r - 1])[k]) \in CCY_ALLOWED}}

\* C1: the long table load_payments_folder returns has its rows in
\* non-decreasing FECHA order.
C1_LongTableSorted ==
    pc = "folder_done" => FechaSorted(long_df.rows)

\* C2: forecast_holt_winters, given a history of fewer than two seasonal
\* cycles, falls back to a model without seasonal component and returns a
\* forecast instead of failing; the seasonal model is used only with at
\* least two cycles of history.
C2_FallbackToTrendOnly ==
    (pc \in {"plotted", "forecast_raised"} /\ model_name = "Holt-Winters" /\ fit_ok) =>
        IF Len(to_regular_weekly(series).index) < 2 * SeasonalPeriods
        THEN pc = "plotted" /\ fitted.seasonal = "none" /\ Len(fcst) = steps
        ELSE pc = "plotted" /\ fitted.seasonal = "add"

\* C3: the history a forecaster returns is the input series unmodified: the
\* same dates and the same value at every date.
C3_HistoryIsInput ==
    pc = "plotted" => y.index = series.index /\ y.values = series.values

\* the files of a folder that the loader enumerates and that pass every
\* check: a valid dd.mm.yyyy date in the path and a readable RESUMEN sheet
\* with a label row, two rows above it and a recognized column
PassingFiles(folder) ==
    {i \in 1..Len(folder) :
        /\ ~folder[i].lock
        /\ ValidDates(folder[i].path) # {}
        /\ SheetKeys(folder[i].wb) # {}}

\* C4: load_payments_folder skips every file with no valid dd.mm.yyyy date
\* in its path or with no usable total block, and returns rows for exactly
\* the files that pass: ten rows per passing file, dated as its path says.
C4_ExactlyPassingFiles ==
    pc = "folder_done" =>
        /\ Len(long_df.rows) = Len(FINAL_COLS) * Cardinality(PassingFiles(base_folder))
        /\ \A d \in {long_df.rows[i].FECHA : i \in 1..Len(long_df.rows)} :
              \E i \in PassingFiles(base_folder) : d \in ValidDates(base_folder[i].path)
        /\ \A i \in PassingFiles(base_folder) :
              \E j \in 1..Len(long_df.rows) :
                  long_df.rows[j].FECHA \in ValidDates(base_folder[i].path)

PanelDatesOf(rows) == {rows[i].FECHA : i \in 1..Len(rows)}

\* C5: prepare_series(freq="D") on a filtered table that is empty or holds a
\* single date returns an empty or short series instead of raising.
C5_ShortInputNoRaise ==
    (pc # "panel" /\ Cardinality(PanelDatesOf(dff)) <= 1) =>
        /\ ~series.raised
        /\ Len(series.index) = Cardinality(PanelDatesOf(dff))

\* C6: the forecast has exactly `steps` points, starts one period of the
\* input series' frequency (one day for the daily series the panel
\* prepares) after the last date of the input series, and its dates are one
\* such period apart.
C6_ForecastContinuesInput ==
    pc = "plotted" =>
        /\ Len(fcst) = steps
        /\ fcst[1] = series.index[Len(series.index)] + Period("D")
        /\ \A k \in 1..(Len(fcst) - 1) : fcst[k + 1] = fcst[k] + Period("D")

\* C7: for a non-empty table prepare_series(freq="D") returns every calendar
\* day from the smallest to the largest FECHA once, in increasing order,
\* with the sum of -Valor over the rows of an observed date and 0 on a date
\* without rows.
C7_DailySeries ==
    (pc # "panel" /\ dff # <<>>) =>
        LET dates == PanelDatesOf(dff)
            lo == CHOOSE d \in dates : \A e \in dates : d <= e
            hi == CHOOSE d \in dates : \A e \in dates : e <= d
        IN  /\ ~series.raised
            /\ Len(series.index) = hi - lo + 1
            /\ Len(series.values) = Len(series.index)
            /\ \A i \in 1..Len(series.index) :
                  /\ series.index[i] = lo + i - 1
                  /\ series.index[i] \notin dates => series.values[i] = 0
                  /\ series.values[i] =
                        SumSeq([j \in 1..Len(dff) |->
                                   IF dff[j].FECHA = series.index[i] THEN 0 - dff[j].Valor ELSE 0])

\* a gap date filled with zero between two observed dates, one of them with
\* two rows to sum
C7_Witness ==
    /\ pc = "prepared"
    /\ Len(dff) = 3
    /\ dff[1].FECHA = dff[2].FECHA
    /\ dff[1].Valor # dff[2].Valor
    /\ dff[3].FECHA > dff[1].FECHA + 1
    /\ series.values[1] = 60
    /\ series.values[2] = 0

\* C8: load_payments_folders returns exactly the rows of the non-empty
\* per-folder loads, none duplicated or lost, in non-decreasing FECHA order,
\* and the empty table with the canonical columns when every folder loads
\* empty.
C8_FoldersUnionSorted ==
    pc = "folders_done" =>
        LET loads == [i \in 1..Len(base_folders) |-> load_payments_folder(base_folders[i]).rows]
        IN  /\ Len(long_df.rows) = SumSeq([i \in 1..Len(loads) |-> Len(loads[i])])
            /\ SameRows(long_df.rows, Concat(loads))
            /\ FechaSorted(long_df.rows)
            /\ (\A i \in 1..Len(loads) : loads[i] = <<>>) =>
                  /\ long_df.rows = <<>>
                  /\ long_df.columns = <<"FECHA", "BANCO", "MONEDA", "Valor", "DiaNombre">>

\* two folders that both load rows, whose concatenation is out of order
C8_Witness ==
    /\ pc = "folders_done"
    /\ Len(base_folders) = 2
    /\ ~IsEmpty(load_payments_folder(base_folders[1]))
    /\ ~IsEmpty(load_payments_folder(base_folders[2]))
    /\ ~FechaSorted(load_payments_folder(base_folders[1]).rows
                    \o load_payments_folder(base_folders[2]).rows)
    /\ Cardinality({long_df.rows[i].FECHA : i \in 1..Len(long_df.rows)}) = 2

\* C9: _extract_date_from_path returns the calendar date of a valid
\* dd.mm.yyyy occurrence in the path, read day-first, and absence when the
\* path holds no occurrence that is a valid calendar date.
C9_DayFirstDateOrAbsence ==
    pc = "date_done" =>
        IF ValidDates(path) = {}
        THEN fecha.kind \in {"None", "NaT"}
        ELSE fecha.kind = "Timestamp" /\ fecha.ord \in ValidDates(path)

\* C10: a record returned by _read_total_a_pagar_wide has exactly the ten
\* FINAL_COLS keys, with 0 for every combination the sheet does not hold,
\* and the result is "not found" whenever no column has both a recognized
\* bank and a recognized currency.
C10_TenColumns ==
    pc = "sheet_done" =>
        /\ wide.found =>
              /\ Len(wide.dict) = Len(FINAL_COLS)
              /\ Range(DictKeys(wide.dict)) = Range(FINAL_COLS)
              /\ \A k \in Range(FINAL_COLS) \ SheetKeys(xlsx) : DictGet(wide.dict, k) = 0
        /\ SheetKeys(xlsx) = {} => ~wide.found

\* a sheet with one recognized column: nine combinations are filled in
C10_Witness ==
    /\ pc = "sheet_done"
    /\ wide.found
    /\ Cardinality(SheetKeys(xlsx)) = 1
    /\ Cardinality({k \in Range(FINAL_COLS) : DictGet(wide.dict, k) = 0}) >= 9

====
